---- MODULE Spec2Model ----
(***************************************************************************)
(* Model of the lookbook-admin ingestion pipeline and versioned publisher. *)
(*                                                                         *)
(*   packages/api/src/routes/webhook.ts   handleApifyWebhook,              *)
(*                                        processSuccessfulRun,            *)
(*                                        normalizeAndStoreStore,          *)
(*                                        recordFailedImport               *)
(*   packages/api/src/lib/apify.ts        parsePriceToCents                *)
(*   packages/api/src/lib/versioning.ts   writeVersion, appendAuditLog     *)
(*   packages/api/src/routes/menus.ts     handleMenuSave, handleMenuUpload *)
(*                                                                         *)
(* Four groups of variables, one per part of the program:                  *)
(*   price    the item loop of normalizeAndStoreStore on one category      *)
(*   category the category extraction of normalizeAndStoreStore            *)
(*   save     the versioned publisher (blob store objects of one menu key) *)
(*   ingest   the webhook deliveries (table store, archive bucket)         *)
(* Each specification moves one group and leaves the others at their      *)
(* initial value.                                                          *)
(***************************************************************************)
EXTENDS Integers, Sequences, FiniteSets, TLC

VARIABLES
    \* ---- price: item loop (webhook.ts 363-394)
    categoryItems,   \* category.items of the category being inserted
    itemPosition,    \* let itemPosition = 0 ... itemPosition++
    draft_items,     \* rows inserted into draft_items by this loop
    \* ---- category: extraction and section loop (webhook.ts 314-362)
    storeData,       \* the upstream store record
    catPc,           \* "extract" | "insert" | "done"
    menuCategories,  \* const menuCategories: ItemListCategory[]
    sectionPosition, \* let sectionPosition = 0 ... sectionPosition++
    draft_sections,  \* rows inserted into draft_sections (with their items)
    \* ---- save: versioned publisher
    now,             \* wall clock in milliseconds (shared with ingest)
    snapshots,       \* INTERNAL_BUCKET _versions/.../{versionId}.json
    manifest,        \* INTERNAL_BUCKET _versions/.../manifest.json
    auditLog,        \* INTERNAL_BUCKET _logs/.../{date}.jsonl
    live,            \* MENU_BUCKET {brand}/{store}__{menu}.json
    savePc,          \* per request: position in handleMenuSave/Upload
    saveLocal,       \* per request: locals of the handler
    saveHist,        \* history: completed and failed saves
    \* ---- ingest: webhook deliveries
    imports,         \* table imports, in insertion order
    bucket,          \* SCRAPE_BUCKET: archived keys
    restaurants,     \* table restaurants, in insertion order (index = id)
    restaurant_sources, \* table restaurant_sources
    draft_menus,     \* table draft_menus, in insertion order
    claims,          \* table claims, in insertion order
    pc,              \* per delivery slot: position in the handler
    local,           \* per delivery slot: locals of the handler
    faults,          \* number of failed table statements so far
    delivered,       \* number of deliveries started so far
    webhookSecret,   \* env.APIFY_WEBHOOK_SECRET ("" when not configured)
    runLog           \* history: one entry per finished delivery

priceVars    == <<categoryItems, itemPosition, draft_items>>
categoryVars == <<storeData, catPc, menuCategories, sectionPosition, draft_sections>>
saveVars     == <<snapshots, manifest, auditLog, live, savePc, saveLocal, saveHist>>
ingestVars   == <<imports, bucket, restaurants, restaurant_sources, draft_menus,
                  claims, pc, local, faults, delivered, webhookSecret, runLog>>
vars == <<priceVars, categoryVars, saveVars, ingestVars, now>>

(***************************************************************************)
(* JavaScript values of an item's price.  A string is a sequence of        *)
(* one-character strings.  A number is the exact decimal n / 10^d (the     *)
(* code computes in IEEE doubles; for the at most three decimals used here *)
(* Math.round(x * 100) agrees with exact arithmetic).                      *)
(***************************************************************************)
Undefined  == [k |-> "undefined", n |-> 0, d |-> 0, s |-> <<>>, amt |-> "none"]
Null       == [k |-> "null",      n |-> 0, d |-> 0, s |-> <<>>, amt |-> "none"]
Num(n, d)  == [k |-> "number",    n |-> n, d |-> d, s |-> <<>>, amt |-> "none"]
Str(s)     == [k |-> "string",    n |-> 0, d |-> 0, s |-> s,    amt |-> "none"]
\* { amount: n/10^d, display: ... }
ObjAmount(n, d) == [k |-> "object", n |-> n, d |-> d, s |-> <<>>, amt |-> "number"]
\* { amount: null, display: ... }
ObjNullAmount   == [k |-> "object", n |-> 0, d |-> 0, s |-> <<>>, amt |-> "null"]
\* { display: ... } : no amount key
ObjNoAmount     == [k |-> "object", n |-> 0, d |-> 0, s |-> <<>>, amt |-> "absent"]

\* price_cents: an integer or SQL NULL
Cents(v)  == [isNull |-> FALSE, v |-> v]
NullCents == [isNull |-> TRUE,  v |-> 0]

DigitChars == <<"0", "1", "2", "3", "4", "5", "6", "7", "8", "9">>
IsDigit(c) == \E i \in 1..10 : DigitChars[i] = c
DigitVal(c) == (CHOOSE i \in 1..10 : DigitChars[i] = c) - 1

RECURSIVE Pow10(_)
Pow10(d) == IF d = 0 THEN 1 ELSE 10 * Pow10(d - 1)

\* Math.round((n / 10^d) * 100): nearest integer, halves toward +infinity
RoundCents(n, d) == (2 * n * 100 + Pow10(d)) \div (2 * Pow10(d))

\* String(price).replace(/[$\s,]/g, '').trim()
StripCurrency(s) == SelectSeq(s, LAMBDA c : c \notin {"$", " ", ","})

\* number of digits of s starting at index i
RECURSIVE DigitRun(_, _)
DigitRun(s, i) ==
    IF i <= Len(s) /\ IsDigit(s[i]) THEN 1 + DigitRun(s, i + 1) ELSE 0

\* value of the digit string s[i .. i+len-1]
RECURSIVE DigitsValue(_, _, _)
DigitsValue(s, i, len) ==
    IF len = 0 THEN 0
    ELSE 10 * DigitsValue(s, i, len - 1) + DigitVal(s[i + len - 1])

\* parseFloat: the longest prefix  [+-] digits [. digits]  with at least one
\* digit; NaN when there is none.  (Exponents and "Infinity" need characters
\* outside PriceAlphabet.)
ParseFloat(s) ==
    LET signed == Len(s) >= 1 /\ s[1] \in {"-", "+"}
        neg    == signed /\ s[1] = "-"
        start  == IF signed THEN 2 ELSE 1
        intLen == DigitRun(s, start)
        dotAt  == start + intLen
        hasDot == dotAt <= Len(s) /\ s[dotAt] = "."
        fracLen == IF hasDot THEN DigitRun(s, dotAt + 1) ELSE 0
        mag    == DigitsValue(s, start, intLen) * Pow10(fracLen)
                  + DigitsValue(s, dotAt + 1, fracLen)
    IN  IF intLen + fracLen = 0
        THEN [nan |-> TRUE, n |-> 0, d |-> 0]
        ELSE [nan |-> FALSE, n |-> IF neg THEN 0 - mag ELSE mag, d |-> fracLen]

\* apify.ts parsePriceToCents.  String(object) is "[object Object]", which
\* parseFloat does not parse.
parsePriceToCents(price) ==
    IF price.k \in {"undefined", "null"} THEN NullCents
    ELSE IF price.k = "number" THEN Cents(RoundCents(price.n, price.d))
    ELSE IF price.k = "object" THEN NullCents
    ELSE LET cleaned == StripCurrency(price.s)
             parsed  == ParseFloat(cleaned)
         IN  IF cleaned = <<>> THEN NullCents
             ELSE IF parsed.nan THEN NullCents
             ELSE Cents(RoundCents(parsed.n, parsed.d))

\* JavaScript truthiness of a price value: if (priceData)
Truthy(v) ==
    CASE v.k \in {"undefined", "null"} -> FALSE
      [] v.k = "number" -> v.n # 0
      [] v.k = "string" -> v.s # <<>>
      [] OTHER -> TRUE

\* webhook.ts 369-377: the price of one draft item
ItemPriceCents(priceData) ==
    IF ~Truthy(priceData) THEN NullCents
    ELSE IF priceData.k = "object" /\ priceData.amt # "absent"
         THEN \* Math.round((priceData.amount || 0) * 100)
              IF priceData.amt = "number"
              THEN Cents(RoundCents(priceData.n, priceData.d))
              ELSE Cents(0)
         ELSE parsePriceToCents(priceData)

UnknownItem == <<"U", "n", "k", "n", "o", "w", "n", " ", "I", "t", "e", "m">>

\* (item.name || 'Unknown Item').replace(/^!/, '')
ItemName(name) ==
    LET n == IF name = <<>> THEN UnknownItem ELSE name
    IN  IF n[1] = "!" THEN SubSeq(n, 2, Len(n)) ELSE n

\* the row of draft_items inserted for one item (webhook.ts 382-393)
DraftItemRow(item, position) ==
    [position    |-> position,
     name        |-> ItemName(item.name),
     price_cents |-> ItemPriceCents(item.price),
     raw         |-> [originalPrice |-> item.price]]


(***************************************************************************)
(* Bounded inputs of the item loop.                                        *)
(***************************************************************************)
MaxStrLen      == 3      \* length of the enumerated price strings
MaxAmountCents == 1299   \* amounts 0.00 .. 12.99 in all three shapes

PriceAlphabet == {"$", ",", ".", "-", "0", "1", "5", "f"}

RECURSIVE StringsUpTo(_)
StringsUpTo(len) ==
    IF len = 0 THEN {<<>>}
    ELSE LET shorter == StringsUpTo(len - 1)
         IN  shorter \cup {Append(s, c) : s \in shorter, c \in PriceAlphabet}

\* decimal digits of a natural number
RECURSIVE DigitsOf(_)
DigitsOf(n) ==
    IF n < 10 THEN <<DigitChars[n + 1]>>
    ELSE Append(DigitsOf(n \div 10), DigitChars[(n % 10) + 1])

\* the amount c / 100 written with two decimals: 1299 -> "12.99"
Decimal2(c) ==
    DigitsOf(c \div 100) \o <<".">> \o
    <<DigitChars[((c \div 10) % 10) + 1], DigitChars[(c % 10) + 1]>>

Free == <<"f", "r", "e", "e">>

ExamplePrices ==
    { Str(<<"$">> \o Decimal2(1299)), Str(Decimal2(1299)), Str(Free),
      Str(<<"1", ",", "2", "9", "9", ".", "0", "0">>),
      Num(1299, 2), Num(4, 3), Num(5, 3), ObjAmount(1299, 2),
      ObjNullAmount, ObjNoAmount, Undefined, Null }

PriceValues ==
    ExamplePrices \cup {Str(s) : s \in StringsUpTo(MaxStrLen)}
                  \cup {Num(c, 2) : c \in 0..5} \cup {ObjAmount(c, 2) : c \in 0..5}

ItemNames == {<<>>, <<"a">>, <<"!", "a">>}

Item(name, price) == [name |-> name, price |-> price]

\* the same amount c / 100 in the three accepted shapes
ShapesOf(c) ==
    << Item(<<"a">>, Str(<<"$">> \o Decimal2(c))),
       Item(<<"a">>, Num(c, 2)),
       Item(<<"a">>, ObjAmount(c, 2)) >>

ItemLists ==
    {<<Item(nm, v)>> : nm \in ItemNames, v \in PriceValues}
    \cup {ShapesOf(c) : c \in 0..MaxAmountCents}

(***************************************************************************)
(* Category extraction (webhook.ts 314-335) and display names (341-343).   *)
(***************************************************************************)
Uncategorized == <<"U", "n", "c", "a", "t", "e", "g", "o", "r", "i", "z", "e", "d">>

LowerChars == <<"a", "b", "c", "d", "e", "g", "i", "n", "o", "r", "t", "z">>
UpperChars == <<"A", "B", "C", "D", "E", "G", "I", "N", "O", "R", "T", "Z">>
IsLower(c) == \E i \in 1..Len(LowerChars) : LowerChars[i] = c
IsWordChar(c) ==
    \/ IsLower(c)
    \/ \E i \in 1..Len(UpperChars) : UpperChars[i] = c
    \/ IsDigit(c)
    \/ c = "_"
ToUpper(c) ==
    IF IsLower(c)
    THEN UpperChars[CHOOSE i \in 1..Len(LowerChars) : LowerChars[i] = c]
    ELSE c

\* (category.name || 'Uncategorized').replace(/_/g, ' ')
\*                                   .replace(/\b\w/g, c => c.toUpperCase())
CategoryName(name) ==
    LET n == IF name = <<>> THEN Uncategorized ELSE name
        spaced == [i \in 1..Len(n) |-> IF n[i] = "_" THEN " " ELSE n[i]]
    IN  [i \in 1..Len(spaced) |->
            IF IsWordChar(spaced[i]) /\ (i = 1 \/ ~IsWordChar(spaced[i - 1]))
            THEN ToUpper(spaced[i]) ELSE spaced[i]]

\* menuCategories.sort((a, b) => (a.sort_order || 0) - (b.sort_order || 0)):
\* a stable insertion sort on sort_order
RECURSIVE InsertSorted(_, _)
InsertSorted(sorted, c) ==
    IF sorted = <<>> THEN <<c>>
    ELSE IF sorted[Len(sorted)].sort_order <= c.sort_order
         THEN Append(sorted, c)
         ELSE Append(InsertSorted(SubSeq(sorted, 1, Len(sorted) - 1), c),
                     sorted[Len(sorted)])

RECURSIVE SortBySortOrder(_)
SortBySortOrder(cats) ==
    IF cats = <<>> THEN <<>>
    ELSE InsertSorted(SortBySortOrder(SubSeq(cats, 1, Len(cats) - 1)),
                      cats[Len(cats)])

\* webhook.ts 314-335.  store.blocks are the values of the item_list_* keys in
\* key order; a block whose items is no array is skipped.  store.menuCategories
\* is the old format (hasMenuCategories: the key is present).  store.menu, the
\* flat item list, is not read.
ExtractCategories(store) ==
    LET listed == SelectSeq(store.blocks, LAMBDA b : b.itemsIsArray)
        sorted == SortBySortOrder(listed)
    IN  IF sorted = <<>> /\ store.hasMenuCategories
        THEN store.menuCategories
        ELSE sorted

\* the row of draft_sections for one category, with the names of its items
DraftSectionRow(category, position) ==
    [position |-> position,
     name     |-> CategoryName(category.name),
     items    |-> [i \in 1..Len(category.items) |-> ItemName(category.items[i].name)]]

(***************************************************************************)
(* Bounded inputs of the category extraction.                              *)
(***************************************************************************)
MaxBlocks    == 2   \* item_list_* keys of a store record
MaxFlatItems == 2   \* items of the flat store.menu list
MaxSortOrder == 2   \* sort_order values 0 (absent) .. MaxSortOrder

SeqsUpTo(S, len) == UNION {[1..m -> S] : m \in 0..len}

\* a flat-list item with its own category field
FlatItem(name, category) == [name |-> name, category |-> category]
FlatItems == {FlatItem(nm, c) : nm \in {<<"x">>, <<"y">>},
                                c \in {<<>>, <<"a">>}}

Category(name, items, sort_order, isArray) ==
    [name |-> name, items |-> items, sort_order |-> sort_order,
     itemsIsArray |-> isArray]

BlockSet ==
    {Category(nm, its, so, TRUE) :
        nm \in {<<>>, <<"a", "_", "b">>},
        its \in {<<>>, <<FlatItem(<<"x">>, <<>>)>>},
        so \in 0..MaxSortOrder}
    \cup {Category(<<"c">>, <<>>, 0, FALSE)}

OldFormatSet ==
    {Category(nm, <<FlatItem(<<"!", "y">>, <<"a">>)>>, 0, TRUE) :
        nm \in {<<>>, <<"d">>}}

StoreRecords ==
    {[blocks |-> bs, hasMenuCategories |-> h, menuCategories |-> mc, menu |-> fl] :
        bs \in SeqsUpTo(BlockSet, MaxBlocks),
        h \in BOOLEAN,
        mc \in SeqsUpTo(OldFormatSet, 1),
        fl \in SeqsUpTo(FlatItems, MaxFlatItems)}

NoStore == [blocks |-> <<>>, hasMenuCategories |-> FALSE, menuCategories |-> <<>>,
            menu |-> <<>>]

(***************************************************************************)
(* Versioned publisher: versioning.ts writeVersion, appendAuditLog and     *)
(* menus.ts handleMenuSave / handleMenuUpload, for one (brand, store,      *)
(* menu) key.  Every await of the handlers is one step.                    *)
(***************************************************************************)
MaxVersions   == 100  \* versioning.ts 89: keep only last 100 versions
MaxClock      == 1    \* the clock ticks at most this many milliseconds
MaxSaves      == 2    \* save requests started in one behaviour
MaxSaveFaults == 1    \* blob store operations that throw in one behaviour

SaveProcs == {1, 2}
Docs      == {[doc |-> "A", items |-> 1], [doc |-> "B", items |-> 2]}
NoDoc     == [doc |-> "none", items |-> 0]
SaveTypes == {"edit", "upload"}

\* versioning.ts 35-37: new Date().toISOString().replace(/[:.]/g, '-').  An
\* ISO timestamp of fixed width orders as the millisecond count it encodes.
generateTimestampId(clock) == clock

VersionEntry(id, type, doc) == [id |-> id, type |-> type, itemCount |-> doc.items]

NoManifest == [state |-> "absent", current |-> 0, versions |-> <<>>]

\* The stored manifest object: state "absent" no object, "ok" a manifest the
\* publisher wrote, "unparseable" content that is no JSON, "noVersions" JSON
\* that parses to an object without a versions list.
\* versioning.ts 62-72: the manifest the handler works on after the read.
\* json() throws for content that is no JSON, and the catch keeps the fresh
\* manifest; whatever parses is taken as it is.
LoadManifest(stored, versionId) ==
    IF stored.state \in {"ok", "noVersions"} THEN stored
    ELSE [state |-> "ok", current |-> versionId, versions |-> <<>>]

\* versioning.ts 86: manifest.versions.unshift(entry) throws a TypeError when
\* the loaded object has no versions list
HasVersions(loaded) == loaded.state # "noVersions"

\* the version list kept whole, without the cap
KeepAll(versions) == versions
\* versioning.ts 85-91: unshift the entry, set current, keep the newest 100
KeepNewest(versions) ==
    IF Len(versions) > MaxVersions THEN SubSeq(versions, 1, MaxVersions)
    ELSE versions

UpdatedManifest(loaded, entry) ==
    [state    |-> "ok",
     current  |-> entry.id,
     versions |-> KeepNewest(<<entry>> \o loaded.versions)]

AuditLine(type, versionId, doc) ==
    [type |-> type, versionId |-> versionId, itemCount |-> doc.items]

\* steps: the writes of this save that have succeeded so far
IdleSave == [versionId |-> 0, doc |-> NoDoc, type |-> "edit",
             manifest |-> NoManifest, log |-> <<>>, steps |-> {}]

\* a manifest left by `count` earlier saves of document A on earlier days
PriorVersions(count) ==
    [i \in 1..count |-> VersionEntry(0 - i, "edit", [doc |-> "A", items |-> 1])]

PriorCounts == {0, MaxVersions - 1}

SaveIdle ==
    /\ snapshots = [i \in {} |-> NoDoc]
    /\ manifest = NoManifest
    /\ auditLog = <<>>
    /\ live = NoDoc
    /\ savePc = [p \in SaveProcs |-> "idle"]
    /\ saveLocal = [p \in SaveProcs |-> IdleSave]
    /\ saveHist = [started |-> 0, completed |-> 0, failed |-> 0, faults |-> 0,
                   prior |-> 0, lastDoc |-> NoDoc, overlapped |-> FALSE]

InitSave ==
    /\ \E count \in PriorCounts :
          /\ snapshots = [i \in {0 - j : j \in 1..count} |-> [doc |-> "A", items |-> 1]]
          /\ manifest = IF count = 0 THEN NoManifest
                        ELSE [state |-> "ok", current |-> 0 - 1,
                              versions |-> PriorVersions(count)]
          /\ live = IF count = 0 THEN NoDoc ELSE [doc |-> "A", items |-> 1]
          /\ saveHist = [started |-> 0, completed |-> 0, failed |-> 0, faults |-> 0,
                         prior |-> count,
                         lastDoc |-> IF count = 0 THEN NoDoc
                                     ELSE [doc |-> "A", items |-> 1],
                         overlapped |-> FALSE]
    /\ auditLog = <<>>
    /\ savePc = [p \in SaveProcs |-> "idle"]
    /\ saveLocal = [p \in SaveProcs |-> IdleSave]

\* outcomes of one blob store operation: TRUE it succeeds, FALSE it throws
BlobOutcomes == IF saveHist.faults < MaxSaveFaults THEN BOOLEAN ELSE {TRUE}

\* menus.ts 108-111 / 158-161: catch, respond 500
SaveFailed(p) ==
    /\ savePc' = [savePc EXCEPT ![p] = "idle"]
    /\ saveLocal' = [saveLocal EXCEPT ![p] = IdleSave]
    /\ saveHist' = [saveHist EXCEPT !.failed = @ + 1, !.faults = @ + 1]

\* the handler with the live write moved to the front, ahead of writeVersion
SaveStartLiveFirst(p) ==
    /\ savePc[p] = "idle"
    /\ \A q \in SaveProcs : q < p => savePc[q] # "idle"
    /\ saveHist.started < MaxSaves
    /\ \E doc \in Docs, type \in SaveTypes :
          /\ saveLocal' = [saveLocal EXCEPT ![p] =
                              [IdleSave EXCEPT !.versionId = generateTimestampId(now),
                                               !.doc = doc, !.type = type]]
          /\ live' = doc
    /\ savePc' = [savePc EXCEPT ![p] = "putSnapshot"]
    /\ saveHist' = [saveHist EXCEPT
                       !.started = @ + 1,
                       !.overlapped = @ \/ \E q \in SaveProcs : savePc[q] # "idle"]
    /\ UNCHANGED <<snapshots, manifest, auditLog>>

\* menus.ts 108-111 / 158-161: the catch after an exception that is no
\* failure of a bucket operation
SaveThrew(p) ==
    /\ savePc' = [savePc EXCEPT ![p] = "idle"]
    /\ saveLocal' = [saveLocal EXCEPT ![p] = IdleSave]
    /\ saveHist' = [saveHist EXCEPT !.failed = @ + 1]

\* menus.ts 77-87, versioning.ts 51: request accepted, version id generated
SaveStart(p) ==
    /\ savePc[p] = "idle"
    /\ \A q \in SaveProcs : q < p => savePc[q] # "idle"
    /\ saveHist.started < MaxSaves
    /\ \E doc \in Docs, type \in SaveTypes :
          saveLocal' = [saveLocal EXCEPT ![p] =
                           [IdleSave EXCEPT !.versionId = generateTimestampId(now),
                                            !.doc = doc, !.type = type]]
    /\ savePc' = [savePc EXCEPT ![p] = "putSnapshot"]
    /\ saveHist' = [saveHist EXCEPT
                       !.started = @ + 1,
                       !.overlapped = @ \/ \E q \in SaveProcs : savePc[q] # "idle"]
    /\ UNCHANGED <<snapshots, manifest, auditLog, live>>

\* versioning.ts 55-58: put the snapshot under the version id
PutSnapshot(p) ==
    /\ savePc[p] = "putSnapshot"
    /\ \E ok \in BlobOutcomes :
          IF ok
          THEN /\ snapshots' = [i \in DOMAIN snapshots \cup {saveLocal[p].versionId} |->
                                   IF i = saveLocal[p].versionId THEN saveLocal[p].doc
                                   ELSE snapshots[i]]
               /\ savePc' = [savePc EXCEPT ![p] = "getManifest"]
               /\ saveLocal' = [saveLocal EXCEPT ![p].steps = @ \cup {"snapshot"}]
               /\ UNCHANGED saveHist
          ELSE SaveFailed(p) /\ UNCHANGED snapshots
    /\ UNCHANGED <<manifest, auditLog, live>>

\* versioning.ts 61-86: read the manifest and add the entry to its list
GetManifest(p) ==
    /\ savePc[p] = "getManifest"
    /\ \E ok \in BlobOutcomes :
          IF ok
          THEN LET loaded == LoadManifest(manifest, saveLocal[p].versionId)
               IN  IF HasVersions(loaded)
                   THEN /\ saveLocal' = [saveLocal EXCEPT ![p].manifest = loaded]
                        /\ savePc' = [savePc EXCEPT ![p] = "putManifest"]
                        /\ UNCHANGED saveHist
                   ELSE SaveThrew(p)
          ELSE SaveFailed(p)
    /\ UNCHANGED <<snapshots, manifest, auditLog, live>>

\* versioning.ts 74-97: add the entry and write the manifest back
PutManifest(p) ==
    /\ savePc[p] = "putManifest"
    /\ \E ok \in BlobOutcomes :
          IF ok
          THEN /\ manifest' = UpdatedManifest(saveLocal[p].manifest,
                                  VersionEntry(saveLocal[p].versionId,
                                               saveLocal[p].type, saveLocal[p].doc))
               /\ savePc' = [savePc EXCEPT ![p] = "getLog"]
               /\ saveLocal' = [saveLocal EXCEPT ![p].steps = @ \cup {"manifest"}]
               /\ UNCHANGED saveHist
          ELSE SaveFailed(p) /\ UNCHANGED manifest
    /\ UNCHANGED <<snapshots, auditLog, live>>

\* versioning.ts 110-124: read the day's audit log
GetLog(p) ==
    /\ savePc[p] = "getLog"
    /\ \E ok \in BlobOutcomes :
          IF ok
          THEN /\ saveLocal' = [saveLocal EXCEPT ![p].log = auditLog]
               /\ savePc' = [savePc EXCEPT ![p] = "putLog"]
               /\ UNCHANGED saveHist
          ELSE SaveFailed(p)
    /\ UNCHANGED <<snapshots, manifest, auditLog, live>>

\* the audit write that stores the new line alone, without the lines read
PutLogRewrite(p) ==
    /\ savePc[p] = "putLog"
    /\ \E ok \in BlobOutcomes :
          IF ok
          THEN /\ auditLog' = <<AuditLine(saveLocal[p].type, saveLocal[p].versionId,
                                          saveLocal[p].doc)>>
               /\ savePc' = [savePc EXCEPT ![p] = "putLive"]
               /\ saveLocal' = [saveLocal EXCEPT ![p].steps = @ \cup {"audit"}]
               /\ UNCHANGED saveHist
          ELSE SaveFailed(p) /\ UNCHANGED auditLog
    /\ UNCHANGED <<snapshots, manifest, live>>

\* the audit write with its failure swallowed: the save goes on
PutLogSwallowed(p) ==
    /\ savePc[p] = "putLog"
    /\ \E ok \in BlobOutcomes :
          /\ auditLog' = IF ok
                         THEN Append(saveLocal[p].log,
                                  AuditLine(saveLocal[p].type, saveLocal[p].versionId,
                                            saveLocal[p].doc))
                         ELSE auditLog
          /\ saveLocal' = [saveLocal EXCEPT ![p].steps =
                              IF ok THEN @ \cup {"audit"} ELSE @]
          /\ saveHist' = [saveHist EXCEPT !.faults = IF ok THEN @ ELSE @ + 1]
    /\ savePc' = [savePc EXCEPT ![p] = "putLive"]
    /\ UNCHANGED <<snapshots, manifest, live>>

\* versioning.ts 126-130: write the log back with the new line appended
PutLog(p) ==
    /\ savePc[p] = "putLog"
    /\ \E ok \in BlobOutcomes :
          IF ok
          THEN /\ auditLog' = Append(saveLocal[p].log,
                                  AuditLine(saveLocal[p].type, saveLocal[p].versionId,
                                            saveLocal[p].doc))
               /\ savePc' = [savePc EXCEPT ![p] = "putLive"]
               /\ saveLocal' = [saveLocal EXCEPT ![p].steps = @ \cup {"audit"}]
               /\ UNCHANGED saveHist
          ELSE SaveFailed(p) /\ UNCHANGED auditLog
    /\ UNCHANGED <<snapshots, manifest, live>>

\* menus.ts 97-107 / 147-157: overwrite the live object, respond
PutLive(p) ==
    /\ savePc[p] = "putLive"
    /\ \E ok \in BlobOutcomes :
          IF ok
          THEN /\ live' = saveLocal[p].doc
               /\ savePc' = [savePc EXCEPT ![p] = "idle"]
               /\ saveLocal' = [saveLocal EXCEPT ![p] = IdleSave]
               /\ saveHist' = [saveHist EXCEPT !.completed = @ + 1,
                                               !.lastDoc = saveLocal[p].doc]
          ELSE SaveFailed(p) /\ UNCHANGED live
    /\ UNCHANGED <<snapshots, manifest, auditLog>>

\* the wall clock advances
Tick ==
    /\ now < MaxClock
    /\ now' = now + 1

SaveStep(p) ==
    \/ SaveStart(p)
    \/ PutSnapshot(p)
    \/ GetManifest(p)
    \/ PutManifest(p)
    \/ GetLog(p)
    \/ PutLog(p)
    \/ PutLive(p)

\* a save request that starts when no other save is in flight
SaveStartAlone(p) ==
    /\ \A q \in SaveProcs : savePc[q] = "idle"
    /\ SaveStart(p)

SaveStepSeq(p) ==
    \/ SaveStartAlone(p)
    \/ PutSnapshot(p)
    \/ GetManifest(p)
    \/ PutManifest(p)
    \/ GetLog(p)
    \/ PutLog(p)
    \/ PutLive(p)

(***************************************************************************)
(* Ingestion: webhook.ts handleApifyWebhook, processSuccessfulRun,         *)
(* normalizeAndStoreStore, recordFailedImport.  Every statement sent to    *)
(* the table store or the bucket is one step; a statement may fail, and    *)
(* execute() then returns {data: null, error}.                             *)
(***************************************************************************)
MaxDeliveries == 2   \* webhook notifications handled in one behaviour
MaxFaults     == 1   \* external calls that fail in one behaviour

Procs      == {1, 2}
RunIds     == {"x", "y"}
DatasetIds == {"d1", "d2", "d3"}

FailureEvents == {"ACTOR.RUN.FAILED", "ACTOR.RUN.ABORTED", "ACTOR.RUN.TIMED_OUT"}

\* an upstream store record.  url: store.url; restaurantId, name:
\* store.restaurant.id and .name ("" when absent); defect "item": one of its
\* items is not an object with a string name, so the item loop throws.
IngestStore(url, restaurantId, name, defect) ==
    [url |-> url, restaurantId |-> restaurantId, name |-> name, defect |-> defect,
     blocks |-> <<Category(<<"a">>, <<FlatItem(<<"x">>, <<>>)>>, 1, TRUE)>>,
     hasMenuCategories |-> FALSE, menuCategories |-> <<>>, menu |-> <<>>]

\* fetchDatasetItems: the items of each dataset.  A re-run that produces the
\* same payload is another run id delivered with a dataset of the same items.
Dataset(ds) ==
    CASE ds = "d1" -> <<IngestStore("u1", "", "Cafe A", "none")>>
      [] ds = "d2" -> <<IngestStore("u1", "", "Cafe B", "none"),
                        IngestStore("", "r9", "Cafe E", "item")>>
      [] ds = "d3" -> <<IngestStore("", "", "Cafe C", "none")>>

\* crypto.ts sha256 of JSON.stringify(items): a digest that is equal exactly
\* for equal item lists, named here by the first dataset holding those items
DatasetOrder == <<"d1", "d2", "d3">>
sha256(items) ==
    DatasetOrder[CHOOSE k \in 1..Len(DatasetOrder) :
                    /\ Dataset(DatasetOrder[k]) = items
                    /\ \A j \in 1..(k - 1) : Dataset(DatasetOrder[j]) # items]

EmptyHash == ""

\* (restaurantInfo.name || 'store').toLowerCase().replace(/[^a-z0-9]+/g, '-')
Slug(name) ==
    CASE name = "Cafe A" -> "cafe-a"
      [] name = "Cafe B" -> "cafe-b"
      [] name = "Cafe C" -> "cafe-c"
      [] name = "Cafe E" -> "cafe-e"
      [] OTHER -> "store"

NoUrl == <<"none", "", "">>

\* webhook.ts 204-214: store.url, or the URL built from the slug and the id
SourceUrl(store) ==
    IF store.url # "" THEN <<"url", store.url, "">>
    ELSE IF store.restaurantId # ""
         THEN <<"https://www.doordash.com/store/", Slug(store.name), store.restaurantId>>
         ELSE NoUrl

\* webhook.ts 163-164: `${store.url || 'unknown'}`
ErrorLabel(store) == IF store.url # "" THEN store.url ELSE "unknown"

\* webhook.ts 217: restaurantInfo?.name || store.storeName || 'Unknown Restaurant'
StoreName(store) == IF store.name # "" THEN store.name ELSE "Unknown Restaurant"

ArchiveKey(run) == <<"raw/dd/", run, ".json.gz">>

IdleLocal ==
    [run |-> "", ds |-> "", dlv |-> 0, secret |-> "", hash |-> EmptyHash, i |-> 0,
     errors |-> <<>>, restaurantId |-> 0, restaurantCreated |-> FALSE,
     restaurantsCreated |-> 0, claimCodesGenerated |-> 0,
     archived |-> FALSE, priorRows |-> FALSE, priorSuccess |-> FALSE,
     threw |-> {}]

IngestEmpty ==
    /\ imports = <<>>
    /\ bucket = {}
    /\ restaurants = <<>>
    /\ restaurant_sources = {}
    /\ draft_menus = <<>>
    /\ claims = <<>>
    /\ pc = [p \in Procs |-> "idle"]
    /\ local = [p \in Procs |-> IdleLocal]
    /\ delivered = 0
    /\ runLog = <<>>

\* the secret of the deployment, and the secrets a notification may carry in
\* its query string ("" when it carries none)
Secret  == "s"
Secrets == {"", "s", "t"}

IngestIdle == IngestEmpty /\ webhookSecret = Secret

\* webhook.ts 33: the check passes when a secret is configured and the
\* notification's secret is that one
AuthorizedWhenSet(configured, presented) == configured = "" \/ presented = configured
Authorized(configured, presented) == configured # "" /\ presented = configured

\* a notification is handled by the first free slot (the slots are alike)
FreeSlot(p) == pc[p] = "idle" /\ \A q \in Procs : q < p => pc[q] # "idle"

\* outcomes of one external call: TRUE it succeeds, FALSE it fails
CallOutcomes == IF faults < MaxFaults THEN BOOLEAN ELSE {TRUE}
Fault(ok) == faults' = IF ok THEN faults ELSE faults + 1

Items(p) == Dataset(local[p].ds)
Store(p) == Items(p)[local[p].i]

LogEntry(l, outcome) ==
    [dlv |-> l.dlv, run |-> l.run, ds |-> l.ds, secret |-> l.secret,
     hash |-> l.hash, outcome |-> outcome,
     restaurantsCreated |-> l.restaurantsCreated,
     claimCodesGenerated |-> l.claimCodesGenerated,
     archived |-> l.archived, priorRows |-> l.priorRows,
     priorSuccess |-> l.priorSuccess, r2Key |-> ArchiveKey(l.run),
     threw |-> l.threw, errors |-> l.errors, seen |-> restaurant_sources]

\* the handler returns: the slot is free again
Respond(p, l, outcome) ==
    /\ pc' = [pc EXCEPT ![p] = "idle"]
    /\ local' = [local EXCEPT ![p] = IdleLocal]
    /\ runLog' = Append(runLog, LogEntry(l, outcome))

\* webhook.ts 156-166: the loop goes on with the next store, or ends
AfterStore(p, l) ==
    /\ pc' = [pc EXCEPT ![p] = IF l.i < Len(Dataset(l.ds)) THEN "resolve" ELSE "finalize"]
    /\ local' = [local EXCEPT ![p] = [l EXCEPT !.i = @ + 1]]

\* webhook.ts 159-160: normalizeAndStoreStore returned
StoreReturned(p, l, claimCodeGenerated) ==
    AfterStore(p, [l EXCEPT
        !.restaurantsCreated = IF l.restaurantCreated THEN @ + 1 ELSE @,
        !.claimCodesGenerated = IF claimCodeGenerated THEN @ + 1 ELSE @])

\* webhook.ts 161-165: normalizeAndStoreStore threw
StoreThrew(p, l) ==
    AfterStore(p, [l EXCEPT
        !.errors = Append(@, ErrorLabel(Dataset(l.ds)[l.i])),
        !.threw = @ \cup {l.i}])

\* webhook.ts 29-36: the secret is missing or wrong, or none is configured:
\* 401, before the payload is read
DeliverUnauthorized(p) ==
    /\ FreeSlot(p)
    /\ delivered < MaxDeliveries
    /\ \E secret \in Secrets :
          /\ ~Authorized(webhookSecret, secret)
          /\ runLog' = Append(runLog,
                          LogEntry([IdleLocal EXCEPT !.secret = secret,
                                                     !.dlv = delivered + 1],
                                   "unauthorized"))
    /\ delivered' = delivered + 1
    /\ UNCHANGED <<imports, bucket, restaurants, restaurant_sources, draft_menus,
                   claims, pc, local, faults>>

\* a failure notification that is answered without recording it
DeliverFailedUnrecorded(p) ==
    /\ FreeSlot(p)
    /\ delivered < MaxDeliveries
    /\ \E secret \in Secrets, run \in RunIds :
          /\ Authorized(webhookSecret, secret)
          /\ runLog' = Append(runLog,
                          LogEntry([IdleLocal EXCEPT !.run = run, !.secret = secret,
                                                     !.dlv = delivered + 1], "failed"))
    /\ delivered' = delivered + 1
    /\ UNCHANGED <<imports, bucket, restaurants, restaurant_sources, draft_menus,
                   claims, pc, local, faults>>

\* webhook.ts 54-57: the run failed upstream; recordFailedImport 449-457
DeliverFailed(p) ==
    /\ FreeSlot(p)
    /\ delivered < MaxDeliveries
    /\ \E secret \in Secrets, run \in RunIds, ev \in FailureEvents, ok \in CallOutcomes :
          /\ Authorized(webhookSecret, secret)
          /\ Fault(ok)
          /\ imports' = IF ok
                        THEN Append(imports,
                                [run_id |-> run,
                                 payload_hash |-> EmptyHash, r2_key |-> <<>>,
                                 status |-> "failed", error_message |-> <<"event">>])
                        ELSE imports
          /\ runLog' = Append(runLog,
                          LogEntry([IdleLocal EXCEPT !.run = run, !.secret = secret,
                                                     !.dlv = delivered + 1], "failed"))
    /\ delivered' = delivered + 1
    /\ UNCHANGED <<bucket, restaurants, restaurant_sources, draft_menus, claims,
                   pc, local>>

\* webhook.ts 59-62: any other event type is ignored
DeliverIgnored(p) ==
    /\ FreeSlot(p)
    /\ delivered < MaxDeliveries
    /\ \E secret \in Secrets :
          /\ Authorized(webhookSecret, secret)
          /\ runLog' = Append(runLog,
                          LogEntry([IdleLocal EXCEPT !.secret = secret,
                                                     !.dlv = delivered + 1], "ignored"))
    /\ delivered' = delivered + 1
    /\ UNCHANGED <<imports, bucket, restaurants, restaurant_sources, draft_menus,
                   claims, pc, local, faults>>

\* webhook.ts 65, 95-102: ACTOR.RUN.SUCCEEDED; fetch the items and hash them.
\* A failed fetch throws: the handler answers 500 (73-79).
DeliverSucceeded(p) ==
    /\ FreeSlot(p)
    /\ delivered < MaxDeliveries
    /\ \E secret \in Secrets, run \in RunIds, ds \in DatasetIds, ok \in CallOutcomes :
          LET l == [IdleLocal EXCEPT !.run = run, !.ds = ds, !.dlv = delivered + 1,
                                     !.secret = secret,
                                     !.hash = sha256(Dataset(ds))]
          IN  /\ Authorized(webhookSecret, secret)
              /\ Fault(ok)
              /\ IF ok
                 THEN /\ pc' = [pc EXCEPT ![p] = "hashCheck"]
                      /\ local' = [local EXCEPT ![p] = l]
                      /\ UNCHANGED runLog
                 ELSE Respond(p, l, "fetchFailed")
    /\ delivered' = delivered + 1
    /\ UNCHANGED <<imports, bucket, restaurants, restaurant_sources, draft_menus, claims>>

\* webhook.ts 112: the row found is a duplicate when its status is success
IsDuplicate(existing) == existing.status = "success"

\* webhook.ts 114-119: the result of a short-circuited run
DuplicateResultCountingItems(l) ==
    [l EXCEPT !.restaurantsCreated = Len(Dataset(l.ds)), !.claimCodesGenerated = 0]
DuplicateResult(l) == [l EXCEPT !.restaurantsCreated = 0, !.claimCodesGenerated = 0]

\* webhook.ts 105-120: select id,status where payload_hash = hash, .single():
\* the first row of the answer, whose order the query does not fix.  A failed
\* query has data null and the run goes on.
HashCheck(p) ==
    /\ pc[p] = "hashCheck"
    /\ LET matches == {k \in 1..Len(imports) : imports[k].payload_hash = local[p].hash}
           l == [local[p] EXCEPT
                    !.priorRows = matches # {},
                    !.priorSuccess = \E k \in matches : imports[k].status = "success"]
           goOn == /\ pc' = [pc EXCEPT ![p] = "archive"]
                   /\ local' = [local EXCEPT ![p] = l]
                   /\ UNCHANGED runLog
       IN  \E ok \in CallOutcomes :
              /\ Fault(ok)
              /\ IF ok /\ matches # {}
                 THEN \E k \in matches :
                         IF IsDuplicate(imports[k])
                         THEN Respond(p, DuplicateResult(l), "duplicate")
                         ELSE goOn
                 ELSE goOn
    /\ UNCHANGED <<imports, bucket, restaurants, restaurant_sources, draft_menus,
                   claims, delivered>>

\* webhook.ts 122-138: put the compressed payload; a failed put throws (500)
Archive(p) ==
    /\ pc[p] = "archive"
    /\ \E ok \in CallOutcomes :
          /\ Fault(ok)
          /\ IF ok
             THEN /\ bucket' = {b \in bucket : b.key # ArchiveKey(local[p].run)}
                                \cup {[key |-> ArchiveKey(local[p].run),
                                       payloadHash |-> local[p].hash]}
                  /\ pc' = [pc EXCEPT ![p] = "record"]
                  /\ local' = [local EXCEPT ![p].archived = TRUE]
                  /\ UNCHANGED runLog
             ELSE Respond(p, local[p], "archiveFailed") /\ UNCHANGED bucket
    /\ UNCHANGED <<imports, restaurants, restaurant_sources, draft_menus, claims,
                   delivered>>

\* webhook.ts 140-154: insert the import row with status processing; the
\* result of the insert is not looked at
Record(p) ==
    /\ pc[p] = "record"
    /\ \E ok \in CallOutcomes :
          /\ Fault(ok)
          /\ imports' = IF ok
                        THEN Append(imports,
                                [run_id |-> local[p].run,
                                 payload_hash |-> local[p].hash,
                                 r2_key |-> ArchiveKey(local[p].run),
                                 status |-> "processing", error_message |-> <<>>])
                        ELSE imports
    /\ AfterStore(p, local[p])
    /\ UNCHANGED <<bucket, restaurants, restaurant_sources, draft_menus, claims,
                   delivered, runLog>>

\* webhook.ts 204-236: build the source URL (throw when there is none), then
\* select restaurant_id from restaurant_sources where source_url = sourceUrl
Resolve(p) ==
    /\ pc[p] = "resolve"
    /\ LET sourceUrl == SourceUrl(Store(p))
           found == {s \in restaurant_sources : s.source_url = sourceUrl}
           l == [local[p] EXCEPT !.restaurantCreated = FALSE, !.restaurantId = 0]
       IN  IF sourceUrl = NoUrl
           THEN StoreThrew(p, l) /\ UNCHANGED faults
           ELSE \E ok \in CallOutcomes :
                   /\ Fault(ok)
                   /\ IF ok /\ found # {}
                      THEN /\ pc' = [pc EXCEPT ![p] = "touch"]
                           /\ local' = [local EXCEPT ![p] =
                                 [l EXCEPT !.restaurantId =
                                     (CHOOSE s \in found : TRUE).restaurant_id]]
                      ELSE /\ pc' = [pc EXCEPT ![p] = "insRestaurant"]
                           /\ local' = [local EXCEPT ![p] = l]
    /\ UNCHANGED <<imports, bucket, restaurants, restaurant_sources, draft_menus,
                   claims, delivered, runLog>>

\* webhook.ts 237-261: insert the restaurant; a failed insert throws
InsRestaurant(p) ==
    /\ pc[p] = "insRestaurant"
    /\ \E ok \in CallOutcomes :
          /\ Fault(ok)
          /\ IF ok
             THEN /\ restaurants' = Append(restaurants,
                                       [name |-> StoreName(Store(p)),
                                        website |-> SourceUrl(Store(p)),
                                        dlv |-> local[p].dlv])
                  /\ pc' = [pc EXCEPT ![p] = "insSource"]
                  /\ local' = [local EXCEPT ![p].restaurantId = Len(restaurants) + 1,
                                            ![p].restaurantCreated = TRUE]
             ELSE StoreThrew(p, local[p]) /\ UNCHANGED restaurants
    /\ UNCHANGED <<imports, bucket, restaurant_sources, draft_menus, claims,
                   delivered, runLog>>

\* webhook.ts 263-270: insert the source row; source_url is UNIQUE, so the
\* insert is refused when a row for the URL exists.  The result is not looked at.
InsSource(p) ==
    /\ pc[p] = "insSource"
    /\ \E ok \in CallOutcomes :
          /\ Fault(ok)
          /\ LET sourceUrl == SourceUrl(Store(p))
                 taken == \E s \in restaurant_sources : s.source_url = sourceUrl
             IN  restaurant_sources' =
                    IF ok /\ ~taken
                    THEN restaurant_sources \cup
                            {[restaurant_id |-> local[p].restaurantId,
                              source_url |-> sourceUrl, last_seen_at |-> now]}
                    ELSE restaurant_sources
    /\ pc' = [pc EXCEPT ![p] = "insMenu"]
    /\ UNCHANGED <<imports, bucket, restaurants, draft_menus, claims, local,
                   delivered, runLog>>

\* webhook.ts 273-280: update last_seen_at where source_url = sourceUrl
Touch(p) ==
    /\ pc[p] = "touch"
    /\ \E ok \in CallOutcomes :
          /\ Fault(ok)
          /\ restaurant_sources' =
                IF ok
                THEN {IF s.source_url = SourceUrl(Store(p))
                      THEN [s EXCEPT !.last_seen_at = now] ELSE s :
                      s \in restaurant_sources}
                ELSE restaurant_sources
    /\ pc' = [pc EXCEPT ![p] = "insMenu"]
    /\ UNCHANGED <<imports, bucket, restaurants, draft_menus, claims, local,
                   delivered, runLog>>

\* webhook.ts 400: a claim is issued only for a restaurant this call created
ClaimForEveryStore(restaurantCreated) == TRUE
NeedsClaim(restaurantCreated) == restaurantCreated

\* a draft that takes the place of the restaurant's earlier draft
MergedDraftMenu(menus, row) ==
    IF \E k \in 1..Len(menus) : menus[k].restaurant_id = row.restaurant_id
    THEN [k \in 1..Len(menus) |->
            IF menus[k].restaurant_id = row.restaurant_id THEN row ELSE menus[k]]
    ELSE Append(menus, row)
\* webhook.ts 283-293: insert into draft_menus, always a new row
NewDraftMenu(menus, row) == Append(menus, row)

\* webhook.ts 282-395: insert the draft menu (a failed insert throws), then
\* its sections and items.  An item that is no object with a string name makes
\* the item loop throw after the draft menu was inserted.
InsMenu(p) ==
    /\ pc[p] = "insMenu"
    /\ \E ok \in CallOutcomes :
          /\ Fault(ok)
          /\ IF ok
             THEN LET cats == ExtractCategories(Store(p))
                      l == local[p]
                  IN  /\ draft_menus' = NewDraftMenu(draft_menus,
                              [restaurant_id |-> local[p].restaurantId,
                               source_url |-> SourceUrl(Store(p)),
                               status |-> "unclaimed",
                               dlv |-> local[p].dlv,
                               sections |-> [k \in 1..Len(cats) |->
                                               CategoryName(cats[k].name)]])
                      /\ IF Store(p).defect = "item" THEN StoreThrew(p, l)
                         ELSE IF NeedsClaim(l.restaurantCreated)
                         THEN /\ pc' = [pc EXCEPT ![p] = "claimCheck"]
                              /\ local' = [local EXCEPT ![p] = l]
                         ELSE StoreReturned(p, l, FALSE)
             ELSE StoreThrew(p, local[p]) /\ UNCHANGED draft_menus
    /\ UNCHANGED <<imports, bucket, restaurants, restaurant_sources, claims,
                   delivered, runLog>>

\* webhook.ts 401-409: select id from claims where restaurant_id = restaurantId
ClaimCheck(p) ==
    /\ pc[p] = "claimCheck"
    /\ \E ok \in CallOutcomes :
          /\ Fault(ok)
          /\ IF ok /\ \E k \in 1..Len(claims) :
                         claims[k].restaurant_id = local[p].restaurantId
             THEN StoreReturned(p, local[p], FALSE)
             ELSE /\ pc' = [pc EXCEPT ![p] = "insClaim"]
                  /\ UNCHANGED local
    /\ UNCHANGED <<imports, bucket, restaurants, restaurant_sources, draft_menus,
                   claims, delivered, runLog>>

\* webhook.ts 410-423: insert the claim; the result is not looked at
InsClaim(p) ==
    /\ pc[p] = "insClaim"
    /\ \E ok \in CallOutcomes :
          /\ Fault(ok)
          /\ claims' = IF ok
                       THEN Append(claims, [restaurant_id |-> local[p].restaurantId,
                                            dlv |-> local[p].dlv])
                       ELSE claims
    /\ StoreReturned(p, local[p], TRUE)
    /\ UNCHANGED <<imports, bucket, restaurants, restaurant_sources, draft_menus,
                   delivered, runLog>>

\* webhook.ts 172: success when no store threw, else partial
FinalStatus(errors) == IF Len(errors) = 0 THEN "success" ELSE "partial"

\* webhook.ts 168-185: update imports set status, error_message
\* where run_id = runId; then return the counts
Finalize(p) ==
    /\ pc[p] = "finalize"
    /\ \E ok \in CallOutcomes :
          /\ Fault(ok)
          /\ imports' =
                IF ok
                THEN [k \in 1..Len(imports) |->
                        IF imports[k].run_id = local[p].run
                        THEN [imports[k] EXCEPT
                                 !.status = FinalStatus(local[p].errors),
                                 !.error_message = local[p].errors]
                        ELSE imports[k]]
                ELSE imports
    /\ Respond(p, local[p], FinalStatus(local[p].errors))
    /\ UNCHANGED <<bucket, restaurants, restaurant_sources, draft_menus, claims,
                   delivered>>

Deliver(p) ==
    \/ DeliverFailed(p)
    \/ DeliverIgnored(p)
    \/ DeliverSucceeded(p)

Process(p) ==
    \/ HashCheck(p)
    \/ Archive(p)
    \/ Record(p)
    \/ Resolve(p)
    \/ InsRestaurant(p)
    \/ InsSource(p)
    \/ Touch(p)
    \/ InsMenu(p)
    \/ ClaimCheck(p)
    \/ InsClaim(p)
    \/ Finalize(p)

\* a delivery that arrives when no other delivery is being handled
DeliverAlone(p) ==
    /\ \A q \in Procs : pc[q] = "idle"
    /\ Deliver(p)

(***************************************************************************)
(* The item loop and the category extraction as steps.                     *)
(***************************************************************************)
PriceIdle ==
    /\ categoryItems = <<>>
    /\ itemPosition = 0
    /\ draft_items = <<>>

CategoryIdle ==
    /\ storeData = NoStore
    /\ catPc = "done"
    /\ menuCategories = <<>>
    /\ sectionPosition = 0
    /\ draft_sections = <<>>

\* webhook.ts 367-394: one iteration of the item loop
InsertItem ==
    /\ itemPosition < Len(categoryItems)
    /\ draft_items' = Append(draft_items,
                         DraftItemRow(categoryItems[itemPosition + 1], itemPosition))
    /\ itemPosition' = itemPosition + 1
    /\ UNCHANGED categoryItems

\* webhook.ts 314-335
Extract ==
    /\ catPc = "extract"
    /\ menuCategories' = ExtractCategories(storeData)
    /\ catPc' = IF ExtractCategories(storeData) = <<>> THEN "done" ELSE "insert"
    /\ UNCHANGED <<storeData, sectionPosition, draft_sections>>

\* webhook.ts 339-395: one iteration of the section loop
InsertSection ==
    /\ catPc = "insert"
    /\ draft_sections' = Append(draft_sections,
                            DraftSectionRow(menuCategories[sectionPosition + 1],
                                            sectionPosition))
    /\ sectionPosition' = sectionPosition + 1
    /\ catPc' = IF sectionPosition + 1 < Len(menuCategories) THEN "insert" ELSE "done"
    /\ UNCHANGED <<storeData, menuCategories>>

(***************************************************************************)
(* Specifications.                                                         *)
(***************************************************************************)
InitIngest ==
    /\ IngestIdle /\ faults = 0 /\ now = 0
    /\ PriceIdle /\ CategoryIdle /\ SaveIdle

\* no external call fails
InitReliable ==
    /\ IngestIdle /\ faults = MaxFaults /\ now = 0
    /\ PriceIdle /\ CategoryIdle /\ SaveIdle

InitPublisher ==
    /\ InitSave /\ now = 0
    /\ IngestIdle /\ faults = 0 /\ PriceIdle /\ CategoryIdle

InitPrice ==
    /\ categoryItems \in ItemLists /\ itemPosition = 0 /\ draft_items = <<>>
    /\ now = 0 /\ IngestIdle /\ faults = 0 /\ CategoryIdle /\ SaveIdle

InitCategory ==
    /\ storeData \in StoreRecords /\ catPc = "extract" /\ menuCategories = <<>>
    /\ sectionPosition = 0 /\ draft_sections = <<>>
    /\ now = 0 /\ IngestIdle /\ faults = 0 /\ PriceIdle /\ SaveIdle

TickClock == Tick /\ UNCHANGED <<priceVars, categoryVars, saveVars, ingestVars>>

DeliverStep == \E p \in Procs :
    Deliver(p) /\ UNCHANGED <<now, priceVars, categoryVars, saveVars, webhookSecret>>
DeliverAloneStep == \E p \in Procs :
    DeliverAlone(p) /\ UNCHANGED <<now, priceVars, categoryVars, saveVars, webhookSecret>>
ProcessStep == \E p \in Procs :
    Process(p) /\ UNCHANGED <<now, priceVars, categoryVars, saveVars, webhookSecret>>
RejectStep == \E p \in Procs :
    /\ \A q \in Procs : pc[q] = "idle"
    /\ DeliverUnauthorized(p)
    /\ UNCHANGED <<now, priceVars, categoryVars, saveVars, webhookSecret>>

\* concurrent deliveries
Next == DeliverStep \/ ProcessStep \/ TickClock
Spec == InitIngest /\ [][Next]_vars

\* deliveries handled one after the other
NextSeq == DeliverAloneStep \/ ProcessStep \/ TickClock
SpecSeq == InitIngest /\ [][NextSeq]_vars

\* concurrent deliveries, every external call succeeds
SpecReliable == InitReliable /\ [][Next]_vars

\* the deployment has the secret configured or not; notifications carry
\* any secret or none; they are handled one after the other, no call fails
InitGate ==
    /\ IngestEmpty /\ webhookSecret \in {"", Secret}
    /\ faults = MaxFaults /\ now = 0
    /\ PriceIdle /\ CategoryIdle /\ SaveIdle
NextGate == DeliverAloneStep \/ RejectStep \/ ProcessStep
SpecGate == InitGate /\ [][NextGate]_vars

\* the tables as two earlier runs of batch d1 left them: run x ended partial
\* (its draft_menus insert failed), then run y processed the batch with
\* success.  Deliveries are handled one after the other and no call fails.
HistoryUrl == SourceUrl(Dataset("d1")[1])
InitHistory ==
    /\ imports = << [run_id |-> "x", payload_hash |-> sha256(Dataset("d1")),
                     r2_key |-> ArchiveKey("x"), status |-> "partial",
                     error_message |-> <<ErrorLabel(Dataset("d1")[1])>>],
                    [run_id |-> "y", payload_hash |-> sha256(Dataset("d1")),
                     r2_key |-> ArchiveKey("y"), status |-> "success",
                     error_message |-> <<>>] >>
    /\ bucket = {[key |-> ArchiveKey("x"), payloadHash |-> sha256(Dataset("d1"))],
                 [key |-> ArchiveKey("y"), payloadHash |-> sha256(Dataset("d1"))]}
    /\ restaurants = <<[name |-> StoreName(Dataset("d1")[1]), website |-> HistoryUrl,
                        dlv |-> 0 - 1]>>
    /\ restaurant_sources = {[restaurant_id |-> 1, source_url |-> HistoryUrl,
                              last_seen_at |-> 0]}
    /\ draft_menus = <<[restaurant_id |-> 1, source_url |-> HistoryUrl,
                        status |-> "unclaimed", dlv |-> 0,
                        sections |-> <<CategoryName(<<"a">>)>>]>>
    /\ claims = <<>>
    /\ pc = [p \in Procs |-> "idle"]
    /\ local = [p \in Procs |-> IdleLocal]
    /\ delivered = 0
    /\ runLog = <<>>
    /\ webhookSecret = Secret
    /\ faults = MaxFaults /\ now = 0
    /\ PriceIdle /\ CategoryIdle /\ SaveIdle
SpecHistory == InitHistory /\ [][NextSeq]_vars

\* concurrent saves to one menu key
NextSave ==
    \/ \E p \in SaveProcs :
          SaveStep(p) /\ UNCHANGED <<now, priceVars, categoryVars, ingestVars>>
    \/ TickClock
SpecSave == InitPublisher /\ [][NextSave]_vars

\* concurrent saves to a menu key whose manifest object is absent or damaged
DamagedStates == {"absent", "unparseable", "noVersions"}
InitRecover ==
    /\ manifest \in {[state |-> st, current |-> 0, versions |-> <<>>] :
                        st \in DamagedStates}
    /\ snapshots = [i \in {} |-> NoDoc]
    /\ auditLog = <<>>
    /\ live = NoDoc
    /\ savePc = [p \in SaveProcs |-> "idle"]
    /\ saveLocal = [p \in SaveProcs |-> IdleSave]
    /\ saveHist = [started |-> 0, completed |-> 0, failed |-> 0, faults |-> 0,
                   prior |-> 0, lastDoc |-> NoDoc, overlapped |-> FALSE]
    /\ now = 0
    /\ IngestIdle /\ faults = 0 /\ PriceIdle /\ CategoryIdle
SpecRecover == InitRecover /\ [][NextSave]_vars

\* saves to one menu key, one after the other
NextSaveSeq ==
    \/ \E p \in SaveProcs :
          SaveStepSeq(p) /\ UNCHANGED <<now, priceVars, categoryVars, ingestVars>>
    \/ TickClock
SpecSaveSeq == InitPublisher /\ [][NextSaveSeq]_vars

NextPrice == InsertItem /\ UNCHANGED <<now, categoryVars, saveVars, ingestVars>>
SpecPrice == InitPrice /\ [][NextPrice]_vars

NextCategory ==
    (Extract \/ InsertSection) /\ UNCHANGED <<now, priceVars, saveVars, ingestVars>>
SpecCategory == InitCategory /\ [][NextCategory]_vars

(***************************************************************************)
(* Properties.                                                             *)
(***************************************************************************)
AllIdle == \A p \in Procs : pc[p] = "idle"

\* deliveries that fetched their batch and went through the hash check
Submitted(e) == e.outcome \in {"duplicate", "success", "partial"}
\* deliveries that processed the records of their batch
Processed(e) == e.outcome \in {"success", "partial"}

Count(rows, Test(_)) == Cardinality({k \in 1..Len(rows) : Test(rows[k])})

SuccessRows(hash) ==
    Count(imports, LAMBDA r : r.payload_hash = hash /\ r.status = "success")
RestaurantsBy(dlv) == Count(restaurants, LAMBDA r : r.dlv = dlv)
MenusBy(dlv)       == Count(draft_menus, LAMBDA r : r.dlv = dlv)
ClaimsBy(dlv)      == Count(claims, LAMBDA r : r.dlv = dlv)
RestaurantsFor(url) == Count(restaurants, LAMBDA r : r.website = url)
SourcesFor(url) == {s \in restaurant_sources : s.source_url = url}

\* C1: Idempotent ingestion.  When the identical batch payload is submitted
\* twice in sequence and the first submission was processed without an error,
\* there is exactly one import row with status success for that payload, the
\* second submission did not write the archive again, and it inserted no
\* restaurant, draft menu or claim row.
C1_IdempotentIngestion ==
    (AllIdle /\ Len(runLog) >= 2) =>
        LET first  == runLog[Len(runLog) - 1]
            second == runLog[Len(runLog)]
        IN  (/\ Submitted(first) /\ Submitted(second)
             /\ first.hash = second.hash
             /\ first.outcome = "success")
            => /\ SuccessRows(first.hash) = 1
               /\ ~second.archived
               /\ RestaurantsBy(second.dlv) = 0
               /\ MenusBy(second.dlv) = 0
               /\ ClaimsBy(second.dlv) = 0

\* C2: At most one import row with status success for any payload hash, in
\* every reachable state.
C2_OneSuccessPerHash ==
    \A j, k \in 1..Len(imports) :
        (/\ j # k
         /\ imports[j].status = "success"
         /\ imports[k].status = "success")
        => imports[j].payload_hash # imports[k].payload_hash

PresentedUrls(e) == {SourceUrl(Dataset(e.ds)[k]) : k \in 1..Len(Dataset(e.ds))} \ {NoUrl}

\* C3: Identity stability.  With deliveries handled one after the other, no
\* source URL ever has two restaurant rows; and after two runs in a row that
\* processed a record with the same source URL there is exactly one restaurant
\* row and one source row for it, and its last_seen_at is later than it was
\* after the first run.
C3_IdentityStability ==
    /\ \A r \in 1..Len(restaurants) : RestaurantsFor(restaurants[r].website) <= 1
    /\ (AllIdle /\ Len(runLog) >= 2) =>
          LET first  == runLog[Len(runLog) - 1]
              second == runLog[Len(runLog)]
          IN  (Processed(first) /\ Processed(second)) =>
                 \A url \in PresentedUrls(first) \cap PresentedUrls(second) :
                    /\ RestaurantsFor(url) = 1
                    /\ Cardinality(SourcesFor(url)) = 1
                    /\ \A old \in {s \in first.seen : s.source_url = url} :
                          \A s \in SourcesFor(url) :
                             s.last_seen_at > old.last_seen_at

\* C4: Under every interleaving of deliveries at most one restaurant row is
\* ever created for a source URL.
C4_OneRestaurantPerUrl ==
    \A j, k \in 1..Len(restaurants) :
        restaurants[j].website = restaurants[k].website => j = k

\* C5: Claim single-issuance.  No restaurant ever has more than one claim
\* row, whatever the number and interleaving of the runs that reference it.
C5_ClaimSingleIssuance ==
    \A j, k \in 1..Len(claims) :
        claims[j].restaurant_id = claims[k].restaurant_id => j = k

\* C5 witness: a restaurant referenced by two deliveries (it has draft menus
\* of both) holds its claim row.
C5_Witness ==
    \E c \in 1..Len(claims) : \E m, n \in 1..Len(draft_menus) :
        /\ draft_menus[m].restaurant_id = claims[c].restaurant_id
        /\ draft_menus[n].restaurant_id = claims[c].restaurant_id
        /\ draft_menus[m].dlv # draft_menus[n].dlv
        /\ AllIdle

\* the identifier of an upstream record: its URL, or else its restaurant id
Identifier(store) == IF store.url # "" THEN store.url ELSE store.restaurantId

\* C6: Partial-failure isolation.  A run in which exactly one record of the
\* batch of N threw ends with status partial, has inserted exactly N-1 draft
\* menus, and its error summary names the failing record.
C6_PartialFailureIsolation ==
    \A j \in 1..Len(runLog) :
        LET e == runLog[j]
            items == Dataset(e.ds)
        IN  (Processed(e) /\ Cardinality(e.threw) = 1) =>
               /\ e.outcome = "partial"
               /\ MenusBy(e.dlv) = Len(items) - 1
               /\ \A k \in e.threw :
                     Identifier(items[k]) # "" =>
                        \E m \in 1..Len(e.errors) : e.errors[m] = Identifier(items[k])

SavesIdle == \A p \in SaveProcs : savePc[p] = "idle"
Min(a, b) == IF a < b THEN a ELSE b

\* C7: Version monotonicity.  After N saves made one after the other, none of
\* which failed, the manifest lists min(N, 100) versions with strictly
\* descending ids, current is the id of the newest entry, and the live object
\* is the document saved last.
C7_VersionMonotonicity ==
    (SavesIdle /\ saveHist.failed = 0 /\ saveHist.completed > 0) =>
        /\ Len(manifest.versions) = Min(saveHist.prior + saveHist.completed, MaxVersions)
        /\ \A i \in 1..(Len(manifest.versions) - 1) :
              manifest.versions[i].id > manifest.versions[i + 1].id
        /\ manifest.current = manifest.versions[1].id
        /\ live = saveHist.lastDoc

CategoryOf(item) == IF item.category = <<>> THEN Uncategorized ELSE item.category

\* C8: Category fallback.  For a store record with no item_list_* block and no
\* menuCategories but a flat item list, every item of the flat list ends up in
\* a draft section named after the item's own category, or "Uncategorized"
\* when it has none.
C8_CategoryFallback ==
    (/\ catPc = "done"
     /\ storeData.blocks = <<>>
     /\ ~storeData.hasMenuCategories)
    => \A i \in 1..Len(storeData.menu) :
          \E s \in 1..Len(draft_sections) :
             /\ draft_sections[s].name \in {CategoryOf(storeData.menu[i]),
                                            CategoryName(storeData.menu[i].category)}
             /\ \E m \in 1..Len(draft_sections[s].items) :
                   draft_sections[s].items[m] = ItemName(storeData.menu[i].name)

\* C9: Price normalization.  "$12.99", 12.99 and {amount: 12.99} are stored as
\* 1299 cents; "free", undefined and null are stored as NULL; and the string,
\* the number and the object form of one amount all store the same
\* price_cents.
C9_PriceNormalization ==
    /\ \A j \in 1..Len(draft_items) :
          LET price == draft_items[j].raw.originalPrice
          IN  /\ price \in {Str(<<"$">> \o Decimal2(1299)), Num(1299, 2),
                            ObjAmount(1299, 2)}
                 => draft_items[j].price_cents = Cents(1299)
              /\ price \in {Str(Free), Undefined, Null}
                 => draft_items[j].price_cents = NullCents
    /\ (Len(categoryItems) = 3 /\ Len(draft_items) = 3) =>
          (categoryItems = ShapesOf(categoryItems[2].price.n) =>
             /\ draft_items[1].price_cents = draft_items[2].price_cents
             /\ draft_items[2].price_cents = draft_items[3].price_cents)

HasDigit(s) == \E i \in 1..Len(s) : IsDigit(s[i])
HasZeroDigit(s) == \E i \in 1..Len(s) : s[i] = "0"

\* the upstream price is missing: no price, or an object without an amount
AbsentPrice(price) ==
    \/ price.k \in {"undefined", "null"}
    \/ price.k = "object" /\ price.amt \in {"null", "absent"}
\* a string without any digit cannot be read as an amount
UnparseablePrice(price) == price.k = "string" /\ ~HasDigit(price.s)
\* the upstream price reads as an amount of zero cents
ZeroPrice(price) ==
    \/ price.k = "number" /\ RoundCents(price.n, price.d) = 0
    \/ price.k = "object" /\ price.amt = "number" /\ RoundCents(price.n, price.d) = 0
    \/ price.k = "string" /\ HasZeroDigit(price.s)

\* C10: An absent or unparseable price is stored as NULL, never as 0; 0 is
\* stored only for an upstream price that is a zero amount.
C10_AbsentNeverZero ==
    \A j \in 1..Len(draft_items) :
        LET price == draft_items[j].raw.originalPrice
        IN  /\ (AbsentPrice(price) \/ UnparseablePrice(price))
               => draft_items[j].price_cents = NullCents
            /\ draft_items[j].price_cents = Cents(0) => ZeroPrice(price)

tables == <<imports, bucket, restaurants, restaurant_sources, draft_menus, claims>>
LastEntry(log) == log[Len(log)]
Answered(outcome) ==
    Len(runLog') = Len(runLog) + 1 /\ LastEntry(runLog').outcome = outcome

C12_FetchFailureRecorded ==
    \A j \in 1..Len(runLog) :
        LET e == runLog[j]
        IN  e.outcome = "fetchFailed" =>
               /\ ~e.archived
               /\ RestaurantsBy(e.dlv) = 0 /\ MenusBy(e.dlv) = 0 /\ ClaimsBy(e.dlv) = 0
               /\ \E k \in 1..Len(imports) :
                     imports[k].run_id = e.run /\ imports[k].status = "failed"

\* C13: Snapshots are immutable.  A snapshot written under a version id is
\* still stored, with the same content, after every later step of any save,
\* sequential or concurrent, also of a save whose version id was generated in
\* the same millisecond.
C13_SnapshotsImmutable ==
    [][\A id \in DOMAIN snapshots :
          id \in DOMAIN snapshots' /\ snapshots'[id] = snapshots[id]]_vars

InitialLive == IF saveHist.prior = 0 THEN NoDoc ELSE [doc |-> "A", items |-> 1]

\* C14: A save in which a step fails is answered as a failed save and leaves
\* the live object as it was; the live object is written only by a save whose
\* snapshot, manifest and audit writes have all succeeded, and then holds
\* that save's document.
C14_NoPartialRepublish ==
    [][/\ saveHist'.failed > saveHist.failed => live' = live
       /\ (live' # live \/ saveHist'.completed > saveHist.completed) =>
             \E p \in SaveProcs :
                /\ savePc[p] = "putLive" /\ savePc'[p] = "idle"
                /\ saveLocal[p].steps = {"snapshot", "manifest", "audit"}
                /\ saveHist'.failed = saveHist.failed
                /\ live' = saveLocal[p].doc]_vars

\* C14 witness: the only save so far wrote its snapshot and its manifest
\* entry, failed at the audit append, and the live object is as it was
C14_Witness ==
    /\ SavesIdle
    /\ saveHist.started = 1 /\ saveHist.failed = 1
    /\ manifest.state = "ok" /\ manifest.current >= 0
    /\ auditLog = <<>>
    /\ live = InitialLive

IsPrefix(s, u) == Len(s) <= Len(u) /\ \A i \in 1..Len(s) : s[i] = u[i]

\* every stored line stays, unchanged and in order; a step adds at most one
\* line; and a save that completes has its line in the log
AuditAppended ==
    /\ IsPrefix(auditLog, auditLog')
    /\ Len(auditLog') <= Len(auditLog) + 1
    /\ saveHist'.completed > saveHist.completed =>
          \E p \in SaveProcs :
             /\ savePc[p] = "putLive"
             /\ \E i \in 1..Len(auditLog') :
                   auditLog'[i] = AuditLine(saveLocal[p].type, saveLocal[p].versionId,
                                            saveLocal[p].doc)

\* C15 as stated: under any interleaving of saves to the same key on the same
\* day the audit log is append-only: every stored line stays, unchanged and in
\* order, and each completed save has added its one line.
C15_AuditAppendOnly == [][AuditAppended]_vars

\* C15 amended: the audit log is append-only as long as no save to the key
\* has started while another save to it was in flight.
C15_AuditAppendOnlySequential == [][~saveHist'.overlapped => AuditAppended]_vars

\* C15 witness: two saves, one after the other, have completed and the log
\* holds their two lines
C15_Witness ==
    /\ SavesIdle
    /\ ~saveHist.overlapped
    /\ saveHist.completed = 2
    /\ Len(auditLog) = 2

MenusOf(dlv, url) == {k \in 1..Len(draft_menus) :
                         draft_menus[k].dlv = dlv /\ draft_menus[k].source_url = url}

\* every record of the processed run e has at most one draft menu of that
\* run, exactly one when its processing returned; the draft is unclaimed and
\* belongs to a restaurant row of the record's source URL
OneDraftPerRecord(e, menus) ==
    \A i \in 1..Len(Dataset(e.ds)) :
       LET mine == {k \in 1..Len(menus) :
                       /\ menus[k].dlv = e.dlv
                       /\ menus[k].source_url = SourceUrl(Dataset(e.ds)[i])}
       IN  /\ Cardinality(mine) <= 1
           /\ i \notin e.threw => Cardinality(mine) = 1
           /\ \A k \in mine :
                 /\ menus[k].status = "unclaimed"
                 /\ menus[k].restaurant_id \in 1..Len(restaurants)
                 /\ restaurants[menus[k].restaurant_id].website = menus[k].source_url

ValidSecret(secret) == webhookSecret # "" /\ secret = webhookSecret

\* C17: A notification whose secret is missing or differs from the configured
\* one, or that arrives when no secret is configured, is answered as
\* unauthorized; it is never processed (no fetch, no write), so as long as
\* only such notifications have arrived the bucket and all tables are empty.
C17_UnauthorizedDoesNothing ==
    /\ \A p \in Procs : pc[p] # "idle" => ValidSecret(local[p].secret)
    /\ \A j \in 1..Len(runLog) :
          ~ValidSecret(runLog[j].secret) =>
             /\ runLog[j].outcome = "unauthorized"
             /\ runLog[j].ds = "" /\ ~runLog[j].archived
    /\ (\A j \in 1..Len(runLog) : ~ValidSecret(runLog[j].secret)) /\ AllIdle =>
          /\ imports = <<>> /\ bucket = {}
          /\ restaurants = <<>> /\ restaurant_sources = {}
          /\ draft_menus = <<>> /\ claims = <<>>

\* C17 witness: with the secret configured, a notification with another
\* secret and one without a secret were both rejected
C17_Witness ==
    /\ webhookSecret = Secret
    /\ \E j, k \in 1..Len(runLog) :
          /\ runLog[j].outcome = "unauthorized" /\ runLog[j].secret = "t"
          /\ runLog[k].outcome = "unauthorized" /\ runLog[k].secret = ""

\* C18: Hash check over the whole history.  A run whose payload hash has a
\* row with status success in the import history when it is looked up is
\* short-circuited as a duplicate, whatever other rows with that hash exist
\* and in whatever order the store returns them.
C18_DuplicateWhenAnySuccess ==
    \A j \in 1..Len(runLog) :
        (Submitted(runLog[j]) /\ runLog[j].priorSuccess) =>
           runLog[j].outcome = "duplicate"

\* C19: The archive key reported by a run that was short-circuited as a
\* duplicate is the r2_key of a success row of the import history with the
\* same payload hash, and the payload is stored in the bucket under that key.
C19_DuplicateReportsPriorKey ==
    \A j \in 1..Len(runLog) :
        runLog[j].outcome = "duplicate" =>
           /\ \E k \in 1..Len(imports) :
                 /\ imports[k].payload_hash = runLog[j].hash
                 /\ imports[k].status = "success"
                 /\ imports[k].r2_key = runLog[j].r2Key
           /\ \E b \in bucket : b.key = runLog[j].r2Key /\ b.payloadHash = runLog[j].hash

\* C20: Once an import row has status success no later step changes any
\* field of it: not a redelivery of its run id with another payload, not a
\* run for another run id, not a failure notification for its run id.
C20_SuccessRowFrozen ==
    [][\A k \in 1..Len(imports) :
          imports[k].status = "success" =>
             k <= Len(imports') /\ imports'[k] = imports[k]]_vars

\* restaurant rows inserted by delivery dlv that no source row points at
Unbound(dlv) ==
    {r \in 1..Len(restaurants) :
        /\ restaurants[r].dlv = dlv
        /\ ~\E s \in restaurant_sources : s.restaurant_id = r}

\* C21: No failure of an entity insert is swallowed.  A run that ends with
\* status success has stored the source row of every restaurant it created
\* and the claim row of every claim code it reports; a run in which one of
\* these inserts failed has the failure in its error summary and ends
\* partial.
C21_NoSwallowedFailure ==
    \A j \in 1..Len(runLog) :
        LET e == runLog[j]
        IN  (Processed(e) /\ (Unbound(e.dlv) # {}
                              \/ ClaimsBy(e.dlv) < e.claimCodesGenerated))
            => e.outcome = "partial" /\ e.errors # <<>>

\* C22: The live object is never ahead of its version history.  Every step
\* that overwrites the live object is the live write of a save whose snapshot
\* write, manifest update and audit append have completed before; the object
\* then holds that save's document and a snapshot is stored under that
\* save's version id.
C22_LiveNeverAhead ==
    [][live' # live =>
          \E p \in SaveProcs :
             /\ savePc[p] = "putLive"
             /\ {"snapshot", "manifest", "audit"} \subseteq saveLocal[p].steps
             /\ saveLocal[p].versionId \in DOMAIN snapshots
             /\ live' = saveLocal[p].doc]_vars

\* C22 witness: of two overlapping saves one has overwritten the live object
\* while the other is still writing its version
C22_Witness ==
    /\ saveHist.overlapped
    /\ saveHist.completed = 1
    /\ live = saveHist.lastDoc /\ live # InitialLive
    /\ \E p \in SaveProcs : savePc[p] \in {"putSnapshot", "getManifest", "putManifest"}

\* the row recordFailedImport inserts for a run
FailedRow(r, run) ==
    /\ r.run_id = run /\ r.status = "failed"
    /\ r.payload_hash = EmptyHash /\ r.r2_key = <<>>

C24_CorruptManifestRecovered ==
    [][\A p \in SaveProcs :
          /\ (/\ savePc[p] = "getManifest" /\ savePc'[p] # "getManifest"
              /\ manifest.state # "ok"
              /\ saveHist'.faults = saveHist.faults)
             => /\ savePc'[p] = "putManifest"
                /\ saveLocal'[p].manifest.versions = <<>>
          /\ (/\ savePc[p] = "putManifest" /\ savePc'[p] = "getLog"
              /\ saveLocal[p].manifest.versions = <<>>)
             => manifest' =
                   [state    |-> "ok",
                    current  |-> saveLocal[p].versionId,
                    versions |-> <<VersionEntry(saveLocal[p].versionId,
                                                saveLocal[p].type,
                                                saveLocal[p].doc)>>]]_vars

\* C25: Interleaved saves lose no snapshot.  Whenever a save completes, also
\* one that overlapped with another save to the key, the snapshot object
\* under its version id exists and holds the document that save submitted.
C25_NoSnapshotLost ==
    [][saveHist'.completed > saveHist.completed =>
          \E p \in SaveProcs :
             /\ savePc[p] = "putLive" /\ savePc'[p] = "idle"
             /\ saveLocal[p].versionId \in DOMAIN snapshots'
             /\ snapshots'[saveLocal[p].versionId] = saveLocal[p].doc]_vars

\* C26: Every import row leaves status processing.  When a run that was not
\* a duplicate returns its result, the import history holds a row for its
\* run id and payload hash, and no row of that run id is in status
\* processing any more.
C26_ProcessingRowFinished ==
    [][(Answered("success") \/ Answered("partial")) =>
          LET e == LastEntry(runLog')
          IN  /\ \E k \in 1..Len(imports') :
                    /\ imports'[k].run_id = e.run
                    /\ imports'[k].payload_hash = e.hash
                    /\ imports'[k].status \in {"success", "partial"}
              /\ \A k \in 1..Len(imports') :
                    imports'[k].run_id = e.run =>
                       imports'[k].status # "processing"]_vars

\* the live object is the snapshot the manifest names as current
LiveIsCurrent ==
    /\ manifest.state = "ok"
    /\ manifest.current \in DOMAIN snapshots
    /\ live = snapshots[manifest.current]

\* C27 as stated: after any number of saves to the key, interleaved or not,
\* have all completed, the live object equals the snapshot identified by the
\* manifest's current version id.
C27_LiveIsCurrent ==
    (SavesIdle /\ saveHist.completed > 0 /\ saveHist.failed = 0) => LiveIsCurrent

\* a manifest the publisher has written: current is the first entry, the
\* list is within the cap, and every listed id has its snapshot object
ManifestWellFormed(m) ==
    m.state = "ok" =>
       /\ m.versions # <<>>
       /\ m.current = m.versions[1].id
       /\ Len(m.versions) <= MaxVersions
       /\ \A i \in 1..Len(m.versions) : m.versions[i].id \in DOMAIN snapshots

\* a manifest write puts the save's entry in front of the list the save had
\* loaded and drops entries only from the old end, only beyond the cap
EvictsOldestFirst ==
    manifest' # manifest =>
       \E p \in SaveProcs :
          LET loaded == saveLocal[p].manifest.versions
              stored == manifest'.versions
          IN  /\ savePc[p] = "putManifest"
              /\ stored[1].id = saveLocal[p].versionId
              /\ Len(stored) = Min(Len(loaded) + 1, MaxVersions)
              /\ IsPrefix(SubSeq(stored, 2, Len(stored)), loaded)

\* C28: In every reachable state and under any interleaving of saves the
\* stored manifest has current equal to the id of its first entry, has at
\* most 100 entries, and lists only version ids whose snapshot object exists;
\* and every manifest write evicts the oldest entries first.
C28_ManifestWellFormed ==
    [](ManifestWellFormed(manifest)) /\ [][EvictsOldestFirst]_vars

\* C28 witness: two saves on top of a manifest one entry short of the cap
\* have completed; the list is full and its oldest entry was evicted
C28_Witness ==
    /\ SavesIdle
    /\ saveHist.prior = MaxVersions - 1 /\ saveHist.completed = 2
    /\ Len(manifest.versions) = MaxVersions
    /\ manifest.versions[MaxVersions].id = 0 - (MaxVersions - 2)
    /\ manifest.current = manifest.versions[1].id

\* the processing of the store record that created restaurant r is under way
Creating(r) ==
    \E p \in Procs :
       /\ pc[p] \in {"insSource", "insMenu", "claimCheck", "insClaim"}
       /\ local[p].restaurantCreated
       /\ local[p].restaurantId = r

\* C29: Whenever the processing of a store record has finished, normally or
\* with an error, every restaurant row it created has a source row that
\* binds the restaurant to its source URL.
C29_CreatedRestaurantBound ==
    \A r \in 1..Len(restaurants) :
        ~Creating(r) =>
           \E s \in restaurant_sources :
              s.restaurant_id = r /\ s.source_url = restaurants[r].website

\* C30: A claim row is inserted only by the store-record processing that
\* inserted the restaurant row, after it has inserted the record's draft
\* menu with its sections and items; a processing that resolved the
\* restaurant as existing inserts no claim, also when the restaurant has no
\* claim row.
C30_ClaimOnlyByCreator ==
    [][claims' # claims =>
          \E p \in Procs :
             LET l == local[p]
                 row == LastEntry(claims')
             IN  /\ pc[p] = "insClaim"
                 /\ l.restaurantCreated
                 /\ claims' = Append(claims, row)
                 /\ row.restaurant_id = l.restaurantId /\ row.dlv = l.dlv
                 /\ restaurants[l.restaurantId].dlv = l.dlv
                 /\ restaurants[l.restaurantId].website = SourceUrl(Store(p))
                 /\ \E m \in 1..Len(draft_menus) :
                       /\ draft_menus[m].dlv = l.dlv
                       /\ draft_menus[m].restaurant_id = l.restaurantId]_vars

\* C30 witness: the run that created a restaurant reported a claim code but
\* its claim insert failed; a later run resolved the restaurant as existing,
\* inserted its draft menu, and there is still no claim row
C30_Witness ==
    /\ AllIdle
    /\ Len(runLog) = 2 /\ claims = <<>>
    /\ runLog[1].claimCodesGenerated = 1 /\ Processed(runLog[2])
    /\ \E r \in 1..Len(restaurants) : \E m, n \in 1..Len(draft_menus) :
          /\ restaurants[r].dlv = runLog[1].dlv
          /\ draft_menus[m].restaurant_id = r /\ draft_menus[m].dlv = runLog[1].dlv
          /\ draft_menus[n].restaurant_id = r /\ draft_menus[n].dlv = runLog[2].dlv
====
